---- MODULE Spec2Model ----
(***************************************************************************)
(* State-machine model of the React front end in frontend/src/App.js:      *)
(* the App component (active tab, prediction history), the two detector    *)
(* forms with their asynchronous submit handlers, and the analytics        *)
(* dashboard (confidence histogram and the self-ticking threat trend).     *)
(*                                                                         *)
(* Conventions                                                             *)
(*  - Confidences and probabilities are held in hundredths: 30 is 0.3,     *)
(*    100 is 1.0, 150 is 1.5.  The bin edges 0, 0.1, ..., 1.0 are 0..100.  *)
(*  - An optional value (null or a value) is a sequence of length 0 or 1.  *)
(*  - A component that is not rendered holds its initial state: React      *)
(*    discards the state of an unmounted component and useState gives the  *)
(*    initial value again at the next mount.                               *)
(*  - now is a logical clock: every `new Date()` reads it and time moves   *)
(*    on before the next event.                                            *)
(***************************************************************************)
EXTENDS Integers, Sequences, FiniteSets, TLC

VARIABLES
    activeTab,          \* App: useState('spam')
    predictionHistory,  \* App: useState({spam: [], malware: []})
    spamDetector,       \* SpamDetector: emailText, result, loading, error
    malwareDetector,    \* MalwareDetector: formData, result, loading, error
    requests,           \* fetch() calls to /predict/* that have not settled
    nextRequest,        \* number of the next fetch() call
    modelStats,         \* AnalyticsDashboard: useState(null)
    infoFetch,          \* the GET /models/info of the mounted dashboard
    threatTrends,       \* AnalyticsDashboard: useState([])
    interval,           \* the setInterval id held by the mounted dashboard
    timers,             \* the interval ids the browser still fires
    filterType,         \* ConfidenceChart: useState('all')
    chart,              \* what the ConfidenceChart svg shows
    now,                \* the clock
    rngState,           \* state of the Math.random() generator
    tickLog,            \* the clock readings of the interval callbacks
                        \* fired since the trend timer was last started
    trendChart,         \* the points the ThreatTrendsChart svg shows
    completed           \* per kind, the /predict/* fetches that have
                        \* resolved with a body so far

vars == <<activeTab, predictionHistory, spamDetector, malwareDetector,
          requests, nextRequest, modelStats, infoFetch, threatTrends,
          interval, timers, filterType, chart, now, rngState, tickLog,
          trendChart, completed>>

----------------------------------------------------------------------------
(* Bounds of the model *)

\* Math.random() ranges over the multiples of 1 / RandResolution in [0, 1)
\* in SpecSample
RandResolution == 60
\* fetch() calls to /predict/* in one run of SpecPredict
MaxRequests == 2
\* fetch() calls to /predict/* in one run of Spec
MaxAppRequests == 1
\* the clock reading after which the trend timer of Spec no longer fires
MaxAppTime == 2
\* the clock reading after which the trend timer of SpecTrend no longer fires
MaxTrendTime == 26
\* number of states of the pseudo-random generator
RandStates == 2

(* Program constants *)

\* "Keep only last 20 data points"
TrendCapacity == 20
\* disabled={loading || emailText.length < 10}
MinEmailLength == 10

----------------------------------------------------------------------------
(* Values *)

Kinds == {"spam", "malware"}
Tabs == {"spam", "malware", "analytics"}
FilterTypes == {"all", "spam", "malware"}

None == <<>>
Some(x) == <<x>>

Min(a, b) == IF a < b THEN a ELSE b

\* The last n elements of s.
LastN(s, n) == SubSeq(s, Len(s) - n + 1, Len(s))

\* exampleEmails
ExampleSpam == "CONGRATULATIONS! You've WON $1,000,000! Click here NOW to claim your FREE prize! Limited time offer! ACT FAST!!!"
ExampleHam == "Hi, I wanted to follow up on our meeting yesterday. Could you send me the project timeline when you get a chance? Thanks!"

\* Texts the operator types into the textarea: empty, 9 and 10 characters.
TypedTexts == {"", "nine char", "ten chars!"}

\* useState initial values of SpamDetector
SpamDetectorInit ==
    [emailText |-> "", result |-> None, loading |-> FALSE, error |-> None]

\* useState initial value of formData; a number is held as the decimal text
\* that JSON.stringify writes for it.
FormDataInit ==
    [millisecond |-> "0", state |-> "0", usage_counter |-> "0",
     prio |-> "3069378560", static_prio |-> "14274", normal_prio |-> "0",
     policy |-> "0", vm_pgoff |-> "0", vm_truncate_count |-> "15000",
     task_size |-> "0", cached_hole_size |-> "0", free_area_cache |-> "0",
     mm_users |-> "0", map_count |-> "0", hiwater_rss |-> "0",
     total_vm |-> "0", shared_vm |-> "0", exec_vm |-> "0",
     reserved_vm |-> "0", nr_ptes |-> "0", end_data |-> "0",
     last_interval |-> "0", nvcsw |-> "0", nivcsw |-> "0", min_flt |-> "0",
     maj_flt |-> "120", fs_excl_counter |-> "0", lock |-> "3204448256",
     utime |-> "380000", stime |-> "4", gtime |-> "0", cgtime |-> "0",
     signal_nvcsw |-> "0"]

\* useState initial values of MalwareDetector
MalwareDetectorInit ==
    [formData |-> FormDataInit, result |-> None, loading |-> FALSE,
     error |-> None]

----------------------------------------------------------------------------
(* History snapshot and confidence histogram (ConfidenceChart) *)

\* const bins = [0, 0.1, ..., 1.0], in hundredths
BinEdges == <<0, 10, 20, 30, 40, 50, 60, 70, 80, 90, 100>>

NumBins == Len(BinEdges) - 1

\* `${(bin * 100).toFixed(0)}-${(bins[i + 1] * 100).toFixed(0)}%`
BinLabel(i) == ToString(BinEdges[i]) \o "-" \o ToString(BinEdges[i + 1]) \o "%"

\* allPredictions: the two partitions one after the other, then the filter
Snapshot(history, filter) ==
    LET all == history.spam \o history.malware
    IN  IF filter # "all"
        THEN SelectSeq(all, LAMBDA p : p.type = filter)
        ELSE all

\* p.confidence >= bin && p.confidence < bins[i + 1]
InBin(confidence, i) ==
    confidence >= BinEdges[i] /\ confidence < BinEdges[i + 1]

\* bins.slice(0, -1).map(...)
Histogram(allPredictions) ==
    [i \in 1..NumBins |->
        [bin |-> BinLabel(i),
         count |-> Cardinality({j \in 1..Len(allPredictions) :
                                  InBin(allPredictions[j].confidence, i)})]]

\* The svg before anything was drawn in it.
Blank == <<>>

\* The effect of ConfidenceChart: with nothing to show it returns and leaves
\* the svg as it is, otherwise it clears the svg and draws the histogram.
DrawChart(history, filter, shown) ==
    IF Len(Snapshot(history, filter)) = 0
    THEN shown
    ELSE Histogram(Snapshot(history, filter))

----------------------------------------------------------------------------
(* Threat trend (AnalyticsDashboard) *)

\* The generator of Math.random() before its first use.
Unseeded == -1

\* The engine seeds the generator at its first use, with a seed the program
\* does not choose.
Seeds(s) == IF s = Unseeded THEN 0..(RandStates - 1) ELSE {s}

\* Math.random(): the generator steps and returns state / RandStates,
\* a value in [0, 1).
RandomNext(s) == (5 * s + 3) % RandStates

\* RandomCount rounding up: Math.ceil for Math.floor.
RandomCountCeil(r, resolution, n, base) ==
    (r * n + resolution - 1) \div resolution + base

\* Math.floor(Math.random() * n) + base, for Math.random() = r / resolution
RandomCount(r, resolution, n, base) == (r * n) \div resolution + base

\* The object literal pushed by the updater, for the two values
\* r1 / resolution and r2 / resolution of Math.random().
TrendPointAt(time, r1, r2, resolution) ==
    [time |-> time,
     spam |-> RandomCount(r1, resolution, 20, 5),
     malware |-> RandomCount(r2, resolution, 15, 3)]

\* newData.push({...}), the two values drawn from the generator
TrendPoint(time, s1, s2) == TrendPointAt(time, s1, s2, RandStates)

\* KeepLast with pop() for shift(): the newest point is dropped.
KeepLastPop(newData) ==
    IF Len(newData) > TrendCapacity
    THEN SubSeq(newData, 1, Len(newData) - 1)
    ELSE newData

\* if (newData.length > 20) newData.shift()
KeepLast(newData) ==
    IF Len(newData) > TrendCapacity THEN Tail(newData) ELSE newData

\* TrendUpdater returning the copy as it is after push(), before the
\* length test and shift().
TrendUpdaterPushed(prev, time, s1, s2) ==
    Append(prev, TrendPoint(time, s1, s2))

\* the updater passed to setThreatTrends
TrendUpdater(prev, time, s1, s2) ==
    KeepLast(Append(prev, TrendPoint(time, s1, s2)))

\* ThreatTrendsChart's effect, run when data changes: with no point it
\* returns and the svg keeps what it shows, else it redraws from data.
DrawTrend(data, shown) == IF Len(data) = 0 THEN shown ELSE data

----------------------------------------------------------------------------
(* Initial state: App rendered with the spam tab *)

Init ==
    /\ activeTab = "spam"
    /\ predictionHistory = [spam |-> <<>>, malware |-> <<>>]
    /\ spamDetector = SpamDetectorInit
    /\ malwareDetector = MalwareDetectorInit
    /\ requests = {}
    /\ nextRequest = 1
    /\ modelStats = "null"
    /\ infoFetch = "idle"
    /\ threatTrends = <<>>
    /\ interval = 0
    /\ timers = {}
    /\ filterType = "all"
    /\ chart = Blank
    /\ now = 0
    /\ rngState = Unseeded
    /\ tickLog = <<>>
    /\ trendChart = <<>>
    /\ completed = [kind \in Kinds |-> 0]

----------------------------------------------------------------------------
(* Tab switch: App re-renders, the component of the old tab unmounts and   *)
(* the component of the new tab mounts.                                    *)

\* A fetch whose component unmounted still settles, but its setResult,
\* setError and setLoading reach no component.
Orphan(reqs, kind) ==
    {IF r.kind = kind THEN [r EXCEPT !.live = FALSE] ELSE r : r \in reqs}

\* return () => clearInterval(interval)
ClearInterval(ts, id) == ts \ {id}

\* setInterval: a new id
NewTimer(ts) == CHOOSE id \in 1..(Cardinality(ts) + 1) : id \notin ts

UnmountDetectors ==
    /\ spamDetector' = SpamDetectorInit
    /\ malwareDetector' = MalwareDetectorInit
    /\ requests' = Orphan(requests, activeTab)

MountDashboard ==
    /\ interval' = NewTimer(timers)
    /\ timers' = timers \cup {NewTimer(timers)}
    /\ infoFetch' = "pending"
    /\ modelStats' = "null"
    /\ threatTrends' = <<>>
    /\ trendChart' = <<>>
    /\ tickLog' = <<>>
    /\ filterType' = "all"
    /\ chart' = DrawChart(predictionHistory, "all", Blank)

\* UnmountDashboard with the effect's cleanup left out: the timer is kept.
UnmountDashboardNoCleanup ==
    /\ interval' = 0
    /\ infoFetch' = "idle"
    /\ modelStats' = "null"
    /\ threatTrends' = <<>>
    /\ trendChart' = <<>>
    /\ filterType' = "all"
    /\ chart' = Blank
    /\ UNCHANGED <<timers, tickLog>>

\* UnmountDashboard with the trend sequence kept, as if it were state of
\* App: the points stay when the tab is left.
UnmountDashboardKeepsTrend ==
    /\ timers' = ClearInterval(timers, interval)
    /\ interval' = 0
    /\ infoFetch' = "idle"
    /\ modelStats' = "null"
    /\ filterType' = "all"
    /\ chart' = Blank
    /\ UNCHANGED <<tickLog, threatTrends, trendChart>>

UnmountDashboard ==
    /\ timers' = ClearInterval(timers, interval)
    /\ interval' = 0
    /\ infoFetch' = "idle"
    /\ modelStats' = "null"
    /\ threatTrends' = <<>>
    /\ trendChart' = <<>>
    /\ filterType' = "all"
    /\ chart' = Blank
    /\ UNCHANGED tickLog

\* onClick={() => setActiveTab(tab)}
SetActiveTab(tab) ==
    /\ tab # activeTab
    /\ activeTab' = tab
    /\ IF activeTab = "analytics"
       THEN UnmountDashboard /\ UNCHANGED <<spamDetector, malwareDetector,
                                            requests>>
       ELSE /\ UnmountDetectors
            /\ IF tab = "analytics"
               THEN MountDashboard
               ELSE UNCHANGED <<interval, timers, infoFetch, modelStats,
                                threatTrends, trendChart, tickLog,
                                filterType, chart>>
    /\ UNCHANGED <<predictionHistory, completed, nextRequest, now, rngState>>

----------------------------------------------------------------------------
(* AnalyticsDashboard: model info and the interval callback *)

\* .then(res => res.json()).then(data => setModelStats(data))
ModelInfoLoaded ==
    /\ infoFetch = "pending"
    /\ infoFetch' = "idle"
    /\ modelStats' = "loaded"
    /\ UNCHANGED <<activeTab, predictionHistory, completed, spamDetector,
                   malwareDetector, requests, nextRequest, threatTrends,
                   trendChart, interval, timers, filterType, chart, now,
                   rngState, tickLog>>

\* .catch(err => console.error(...))
ModelInfoFailed ==
    /\ infoFetch = "pending"
    /\ infoFetch' = "idle"
    /\ UNCHANGED <<activeTab, predictionHistory, completed, spamDetector,
                   malwareDetector, requests, nextRequest, modelStats,
                   threatTrends, trendChart, interval, timers, filterType,
                   chart, now, rngState, tickLog>>

\* Tick held back while a /predict/* request is in flight.
TickWhenIdle(id, limit) ==
    /\ requests = {}
    /\ id \in timers
    /\ now < limit
    /\ tickLog' = Append(tickLog, now)
    /\ now' = now + 1
    /\ IF id = interval
       THEN \E seed \in Seeds(rngState) :
               /\ threatTrends' = TrendUpdater(threatTrends, now,
                                      RandomNext(seed),
                                      RandomNext(RandomNext(seed)))
               /\ trendChart' = DrawTrend(threatTrends', trendChart)
               /\ rngState' = RandomNext(RandomNext(seed))
       ELSE UNCHANGED <<threatTrends, trendChart, rngState>>
    /\ UNCHANGED <<activeTab, predictionHistory, completed, spamDetector,
                   malwareDetector, requests, nextRequest, modelStats,
                   infoFetch, interval, timers, filterType, chart>>

\* The callback of setInterval fires for timer id, until the clock reads
\* limit.  setThreatTrends runs its updater only for a mounted dashboard.
Tick(id, limit) ==
    /\ id \in timers
    /\ now < limit
    /\ tickLog' = Append(tickLog, now)
    /\ now' = now + 1
    /\ IF id = interval
       THEN \E seed \in Seeds(rngState) :
               /\ threatTrends' = TrendUpdater(threatTrends, now,
                                      RandomNext(seed),
                                      RandomNext(RandomNext(seed)))
               /\ trendChart' = DrawTrend(threatTrends', trendChart)
               /\ rngState' = RandomNext(RandomNext(seed))
       ELSE UNCHANGED <<threatTrends, trendChart, rngState>>
    /\ UNCHANGED <<activeTab, predictionHistory, completed, spamDetector,
                   malwareDetector, requests, nextRequest, modelStats,
                   infoFetch, interval, timers, filterType, chart>>

----------------------------------------------------------------------------
(* Specification of the trend stream alone: tabs, model info and ticks *)

NextTrend ==
    \/ \E tab \in Tabs : SetActiveTab(tab)
    \/ ModelInfoLoaded
    \/ ModelInfoFailed
    \/ \E id \in timers : Tick(id, MaxTrendTime)

SpecTrend == Init /\ [][NextTrend]_vars

----------------------------------------------------------------------------
(* Specification of one trend point: the first tick of a mounted dashboard, *)
(* for every pair of values Math.random() can return                        *)

\* The state after the analytics tab was opened.
InitSample ==
    /\ activeTab = "analytics"
    /\ predictionHistory = [kind \in Kinds |-> <<>>]
    /\ spamDetector = SpamDetectorInit
    /\ malwareDetector = MalwareDetectorInit
    /\ requests = {}
    /\ nextRequest = 1
    /\ modelStats = "null"
    /\ infoFetch = "pending"
    /\ threatTrends = <<>>
    /\ interval = NewTimer({})
    /\ timers = {NewTimer({})}
    /\ filterType = "all"
    /\ chart = Blank
    /\ now = 0
    /\ rngState = Unseeded
    /\ tickLog = <<>>
    /\ trendChart = <<>>
    /\ completed = [kind \in Kinds |-> 0]

\* The first interval callback, Math.random() returning r1 / RandResolution
\* and then r2 / RandResolution.
FirstTick(r1, r2) ==
    /\ interval \in timers
    /\ threatTrends = <<>>
    /\ tickLog' = Append(tickLog, now)
    /\ now' = now + 1
    /\ threatTrends' =
          KeepLast(Append(threatTrends,
                          TrendPointAt(now, r1, r2, RandResolution)))
    /\ trendChart' = DrawTrend(threatTrends', trendChart)
    /\ UNCHANGED <<activeTab, predictionHistory, completed, spamDetector,
                   malwareDetector, requests, nextRequest, modelStats,
                   infoFetch, interval, timers, filterType, chart, rngState>>

NextSample ==
    \E r1 \in 0..(RandResolution - 1) : \E r2 \in 0..(RandResolution - 1) :
       FirstTick(r1, r2)

SpecSample == InitSample /\ [][NextSample]_vars

----------------------------------------------------------------------------
(* The classifier service as the front end sees it *)

\* The two class names of a kind: <<the benign one, the threat>>
ClassNames(kind) ==
    IF kind = "spam" THEN <<"ham", "spam">> ELSE <<"benign", "malware">>

\* A response body that keeps the contract: the predicted class, its
\* probability as confidence, and the probabilities of both classes.
ContractBody(kind, class, confidence) ==
    LET other == IF class = ClassNames(kind)[1]
                 THEN ClassNames(kind)[2] ELSE ClassNames(kind)[1]
    IN  [prediction |-> class,
         confidence |-> confidence,
         probabilities |-> (class :> confidence) @@ (other :> 100 - confidence)]

\* Confidences of the threat class in the bodies the model draws from:
\* exactly on a bin edge, and 1.0.
ThreatConfidences == {30, 100}

\* A 200 body with confidence 1.5.
OverconfidentBody(kind) ==
    [prediction |-> ClassNames(kind)[2],
     confidence |-> 150,
     probabilities |-> (ClassNames(kind)[2] :> 150) @@ (ClassNames(kind)[1] :> 0)]

\* A 200 body whose probabilities lack the benign class.
OneClassBody(kind) ==
    [prediction |-> ClassNames(kind)[2],
     confidence |-> 30,
     probabilities |-> (ClassNames(kind)[2] :> 30)]

\* What response.json() can resolve to.
ResponseBodies(kind) ==
    {ContractBody(kind, ClassNames(kind)[2], c) : c \in ThreatConfidences}
    \cup {ContractBody(kind, ClassNames(kind)[1], 0)}
    \cup {OverconfidentBody(kind), OneClassBody(kind)}

\* The statuses of the responses for which response.ok is false.
ErrorStatuses == {400, 500}

\* How a request fails: fetch() rejects and there is no response (status
\* 0), response.ok is false, or response.ok is true and response.json()
\* rejects.
Failures ==
    {[mode |-> "transport", status |-> 0], [mode |-> "body", status |-> 200]}
    \cup {[mode |-> "status", status |-> s] : s \in ErrorStatuses}

\* err.message in the catch clause
ErrorMessage(failure) ==
    CASE failure.mode = "transport" -> "Failed to fetch"
      [] failure.mode = "status" -> "Prediction failed"
      [] failure.mode = "body" -> "Unexpected end of JSON input"

----------------------------------------------------------------------------
(* SpamDetector *)

\* onChange={(e) => setEmailText(e.target.value)}
TypeEmail(text) ==
    /\ activeTab = "spam"
    /\ text # spamDetector.emailText
    /\ spamDetector' = [spamDetector EXCEPT !.emailText = text]
    /\ UNCHANGED <<activeTab, predictionHistory, completed, malwareDetector,
                   requests, nextRequest, modelStats, infoFetch,
                   threatTrends, trendChart, interval, timers, filterType,
                   chart, now, rngState, tickLog>>

\* onClick={() => setEmailText(exampleEmails.spam)} and .ham
LoadExampleEmail(text) ==
    /\ activeTab = "spam"
    /\ text # spamDetector.emailText
    /\ spamDetector' = [spamDetector EXCEPT !.emailText = text]
    /\ UNCHANGED <<activeTab, predictionHistory, completed, malwareDetector,
                   requests, nextRequest, modelStats, infoFetch,
                   threatTrends, trendChart, interval, timers, filterType,
                   chart, now, rngState, tickLog>>

\* SpamSubmitEnabled with disabled={loading}: the length is not looked at.
SpamSubmitEnabledAnyLength == ~spamDetector.loading

\* <button type="submit" disabled={loading || emailText.length < 10}>
SpamSubmitEnabled ==
    ~spamDetector.loading /\ Len(spamDetector.emailText) >= MinEmailLength

\* The fetch() of a submit handler.
Fetch(kind, body) ==
    [id |-> nextRequest, kind |-> kind, body |-> body, live |-> TRUE]

\* SpamDetector.handleSubmit up to its await fetch(...); limit bounds the
\* number of fetch() calls of a run.
SubmitSpam(limit) ==
    /\ activeTab = "spam"
    /\ SpamSubmitEnabled
    /\ nextRequest <= limit
    /\ spamDetector' = [spamDetector EXCEPT
                           !.loading = TRUE, !.error = None, !.result = None]
    /\ requests' = requests \cup
                     {Fetch("spam", [email_text |-> spamDetector.emailText])}
    /\ nextRequest' = nextRequest + 1
    /\ UNCHANGED <<activeTab, predictionHistory, completed, malwareDetector,
                   modelStats, infoFetch, threatTrends, trendChart, interval,
                   timers, filterType, chart, now, rngState, tickLog>>

----------------------------------------------------------------------------
(* MalwareDetector *)

\* What the operator can type into a number input, as its characters:
\* nothing, digits, a sign, a decimal point.
TypedNumbers == {<<>>, <<"7">>, <<"-", "7">>, <<"1", ".", "5">>}

\* The fields edited in SpecForm: one that the examples set, one that they
\* leave alone.
EditedFields == {"static_prio", "shared_vm"}

DigitValue(c) ==
    CASE c = "0" -> 0 [] c = "1" -> 1 [] c = "2" -> 2 [] c = "3" -> 3
      [] c = "4" -> 4 [] c = "5" -> 5 [] c = "6" -> 6 [] c = "7" -> 7
      [] c = "8" -> 8 [] c = "9" -> 9

IsDigit(c) == c \in {"0", "1", "2", "3", "4", "5", "6", "7", "8", "9"}

\* The longest prefix of chars made of digits.
RECURSIVE LeadingDigits(_)
LeadingDigits(chars) ==
    IF chars = <<>> \/ ~IsDigit(Head(chars))
    THEN <<>>
    ELSE <<Head(chars)>> \o LeadingDigits(Tail(chars))

\* The number a sequence of digits is the decimal text of.
RECURSIVE DigitsValue(_)
DigitsValue(digits) ==
    IF digits = <<>>
    THEN 0
    ELSE 10 * DigitsValue(SubSeq(digits, 1, Len(digits) - 1))
         + DigitValue(digits[Len(digits)])

\* parseInt(value): an optional sign, then the digits up to the first
\* character that is not one; NaN (None) when there is no digit.
ParseInt(chars) ==
    LET signed == chars # <<>> /\ Head(chars) \in {"-", "+"}
        digits == LeadingDigits(IF signed THEN Tail(chars) ELSE chars)
    IN  IF digits = <<>>
        THEN None
        ELSE Some(IF Head(chars) = "-"
                  THEN 0 - DigitsValue(digits)
                  ELSE DigitsValue(digits))

\* parseInt(value) || 0: NaN and 0 are falsy
ParseIntOrZero(chars) ==
    IF ParseInt(chars) = None \/ ParseInt(chars) = Some(0)
    THEN 0
    ELSE ParseInt(chars)[1]

\* handleChange with `name:` for `[name]:` in the object literal: the
\* value goes to a field called name.
HandleChangeLiteralKey(name, chars) ==
    /\ activeTab = "malware"
    /\ malwareDetector' =
          [malwareDetector EXCEPT
              !.formData =
                 [field \in DOMAIN @ \cup {"name"} |->
                     IF field = "name"
                     THEN ToString(ParseIntOrZero(chars))
                     ELSE @[field]]]
    /\ UNCHANGED <<activeTab, predictionHistory, completed, spamDetector,
                   requests, nextRequest, modelStats, infoFetch,
                   threatTrends, trendChart, interval, timers, filterType,
                   chart, now, rngState, tickLog>>

\* handleChange: onChange of the input whose name attribute is name, the
\* input holding the characters chars
HandleChange(name, chars) ==
    /\ activeTab = "malware"
    /\ malwareDetector' =
          [malwareDetector EXCEPT
              !.formData[name] = ToString(ParseIntOrZero(chars))]
    /\ UNCHANGED <<activeTab, predictionHistory, completed, spamDetector,
                   requests, nextRequest, modelStats, infoFetch,
                   threatTrends, trendChart, interval, timers, filterType,
                   chart, now, rngState, tickLog>>

\* The four fields an example button sets.
ExampleValues(type) ==
    IF type = "malware"
    THEN [static_prio |-> "25000", utime |-> "410000",
          free_area_cache |-> "50000", nvcsw |-> "100"]
    ELSE [static_prio |-> "14000", utime |-> "370000",
          free_area_cache |-> "10000", nvcsw |-> "5"]

\* loadExample(type): setFormData({...formData, the four fields})
LoadExample(type) ==
    /\ activeTab = "malware"
    /\ malwareDetector' =
          [malwareDetector EXCEPT
              !.formData =
                 [field \in DOMAIN @ \cup DOMAIN ExampleValues(type) |->
                     IF field \in DOMAIN ExampleValues(type)
                     THEN ExampleValues(type)[field]
                     ELSE @[field]]]
    /\ UNCHANGED <<activeTab, predictionHistory, completed, spamDetector,
                   requests, nextRequest, modelStats, infoFetch,
                   threatTrends, trendChart, interval, timers, filterType,
                   chart, now, rngState, tickLog>>

\* <button type="submit" disabled={loading}>
MalwareSubmitEnabled == ~malwareDetector.loading

\* MalwareDetector.handleSubmit up to its await fetch(...)
SubmitMalware(limit) ==
    /\ activeTab = "malware"
    /\ MalwareSubmitEnabled
    /\ nextRequest <= limit
    /\ malwareDetector' = [malwareDetector EXCEPT
                              !.loading = TRUE, !.error = None, !.result = None]
    /\ requests' = requests \cup {Fetch("malware", malwareDetector.formData)}
    /\ nextRequest' = nextRequest + 1
    /\ UNCHANGED <<activeTab, predictionHistory, completed, spamDetector,
                   modelStats, infoFetch, threatTrends, trendChart, interval,
                   timers, filterType, chart, now, rngState, tickLog>>

----------------------------------------------------------------------------
(* The rest of handleSubmit, run when the fetch settles *)

\* { ...data, type: kind, timestamp: new Date() }
Stamp(data, kind, time) ==
    [prediction |-> data.prediction,
     confidence |-> data.confidence,
     probabilities |-> data.probabilities,
     type |-> kind,
     timestamp |-> time]

\* AppendResult with the new entry put first: [{...}, ...prev[kind]].
AppendResultFirst(prev, kind, data, time) ==
    [prev EXCEPT ![kind] = <<Stamp(data, kind, time)>> \o prev[kind]]

\* AppendResult without ...prev[kind]: the partition is replaced.
AppendResultAlone(prev, kind, data, time) ==
    [prev EXCEPT ![kind] = <<Stamp(data, kind, time)>>]

\* AppendResult without ...prev: the partition of the other kind is lost.
AppendResultNoSpread(prev, kind, data, time) ==
    [k \in Kinds |-> IF k = kind
                     THEN Append(prev[k], Stamp(data, kind, time))
                     ELSE <<>>]

\* prev => ({ ...prev, [kind]: [...prev[kind], {...}] })
AppendResult(prev, kind, data, time) ==
    [prev EXCEPT ![kind] = Append(prev[kind], Stamp(data, kind, time))]

\* setResult(data) ... finally setLoading(false)
Succeeded(detector, data) ==
    [detector EXCEPT !.result = Some(data), !.loading = FALSE]

\* Failed without the finally clause: loading stays true.
FailedKeepsLoading(detector, failure) ==
    [detector EXCEPT !.error = Some(ErrorMessage(failure))]

\* catch (err) { setError(err.message) } finally { setLoading(false) }
Failed(detector, failure) ==
    [detector EXCEPT !.error = Some(ErrorMessage(failure)), !.loading = FALSE]

\* The state of the detector of a kind after the state setters of request r
\* ran: they change the detector that issued r while it is mounted, and a
\* setter of an unmounted component changes nothing.
SetState(r, kind, detector, updated) ==
    IF r.live /\ r.kind = kind THEN updated ELSE detector

\* The ConfidenceChart effect runs again when predictionHistory changed.
RedrawChart(history) ==
    chart' = IF activeTab = "analytics"
             THEN DrawChart(history, filterType, chart)
             ELSE chart

\* response.ok, response.json() resolved to data
SettleOk(r, data) ==
    /\ r \in requests
    /\ data \in ResponseBodies(r.kind)
    /\ requests' = requests \ {r}
    /\ spamDetector' = SetState(r, "spam", spamDetector,
                                Succeeded(spamDetector, data))
    /\ malwareDetector' = SetState(r, "malware", malwareDetector,
                                   Succeeded(malwareDetector, data))
    /\ predictionHistory' = AppendResult(predictionHistory, r.kind, data, now)
    /\ RedrawChart(AppendResult(predictionHistory, r.kind, data, now))
    /\ completed' = [completed EXCEPT ![r.kind] = @ + 1]
    /\ now' = now + 1
    /\ UNCHANGED <<activeTab, nextRequest, modelStats, infoFetch,
                   threatTrends, trendChart, interval, timers, filterType,
                   rngState, tickLog>>

\* SettleFailed with the history append moved to the finally clause: a
\* failed request is recorded with an empty result.
SettleFailedRecorded(r, failure) ==
    /\ r \in requests
    /\ failure \in Failures
    /\ requests' = requests \ {r}
    /\ spamDetector' = SetState(r, "spam", spamDetector,
                                Failed(spamDetector, failure))
    /\ malwareDetector' = SetState(r, "malware", malwareDetector,
                                   Failed(malwareDetector, failure))
    /\ predictionHistory' =
          AppendResult(predictionHistory, r.kind,
                       ContractBody(r.kind, ClassNames(r.kind)[1], 0), now)
    /\ UNCHANGED <<activeTab, completed, nextRequest, modelStats, infoFetch,
                   threatTrends, trendChart, interval, timers, filterType,
                   chart, now, rngState, tickLog>>

\* fetch() rejected, !response.ok, or response.json() rejected
SettleFailed(r, failure) ==
    /\ r \in requests
    /\ failure \in Failures
    /\ requests' = requests \ {r}
    /\ spamDetector' = SetState(r, "spam", spamDetector,
                                Failed(spamDetector, failure))
    /\ malwareDetector' = SetState(r, "malware", malwareDetector,
                                   Failed(malwareDetector, failure))
    /\ UNCHANGED <<activeTab, predictionHistory, completed, nextRequest,
                   modelStats, infoFetch, threatTrends, trendChart, interval,
                   timers, filterType, chart, now, rngState, tickLog>>

----------------------------------------------------------------------------
(* ConfidenceChart *)

\* SetFilterType with the filter applied to the history itself instead of
\* to the effect's copy: the partition the filter hides is emptied.
SetFilterTypeInPlace(filter) ==
    /\ activeTab = "analytics"
    /\ filter # filterType
    /\ filterType' = filter
    /\ predictionHistory' =
          [kind \in Kinds |-> IF filter \in {"all", kind}
                              THEN predictionHistory[kind]
                              ELSE <<>>]
    /\ chart' = DrawChart(predictionHistory', filter, chart)
    /\ UNCHANGED <<activeTab, completed, spamDetector, malwareDetector,
                   requests, nextRequest, modelStats, infoFetch,
                   threatTrends, trendChart, interval, timers, now, rngState,
                   tickLog>>

\* onClick={() => setFilterType(filter)}; the effect runs with the new filter
SetFilterType(filter) ==
    /\ activeTab = "analytics"
    /\ filter # filterType
    /\ filterType' = filter
    /\ chart' = DrawChart(predictionHistory, filter, chart)
    /\ UNCHANGED <<activeTab, predictionHistory, completed, spamDetector,
                   malwareDetector, requests, nextRequest, modelStats,
                   infoFetch, threatTrends, trendChart, interval, timers,
                   now, rngState, tickLog>>

----------------------------------------------------------------------------
(* Specification of the prediction path: the detectors, the history and   *)
(* the confidence chart, in the time before the trend timer first fires.   *)

NextPredict ==
    \/ \E tab \in Tabs : SetActiveTab(tab)
    \/ \E text \in TypedTexts : TypeEmail(text)
    \/ \E text \in {ExampleSpam, ExampleHam} : LoadExampleEmail(text)
    \/ SubmitSpam(MaxRequests)
    \/ SubmitMalware(MaxRequests)
    \/ \E r \in requests : \E data \in ResponseBodies(r.kind) : SettleOk(r, data)
    \/ \E r \in requests : \E failure \in Failures : SettleFailed(r, failure)
    \/ \E filter \in FilterTypes : SetFilterType(filter)
    \/ ModelInfoLoaded
    \/ ModelInfoFailed

SpecPredict == Init /\ [][NextPredict]_vars

----------------------------------------------------------------------------
(* Specification of the whole front end *)

Next ==
    \/ \E tab \in Tabs : SetActiveTab(tab)
    \/ \E text \in TypedTexts : TypeEmail(text)
    \/ \E text \in {ExampleSpam, ExampleHam} : LoadExampleEmail(text)
    \/ SubmitSpam(MaxAppRequests)
    \/ SubmitMalware(MaxAppRequests)
    \/ \E r \in requests : \E data \in ResponseBodies(r.kind) : SettleOk(r, data)
    \/ \E r \in requests : \E failure \in Failures : SettleFailed(r, failure)
    \/ \E filter \in FilterTypes : SetFilterType(filter)
    \/ ModelInfoLoaded
    \/ ModelInfoFailed
    \/ \E id \in timers : Tick(id, MaxAppTime)

Spec == Init /\ [][Next]_vars

----------------------------------------------------------------------------
(* Specification of the malware form: edits, example loads, submits and    *)
(* their settling, with the Malware Analysis tab open                       *)

InitForm ==
    /\ activeTab = "malware"
    /\ predictionHistory = [kind \in Kinds |-> <<>>]
    /\ spamDetector = SpamDetectorInit
    /\ malwareDetector = MalwareDetectorInit
    /\ requests = {}
    /\ nextRequest = 1
    /\ modelStats = "null"
    /\ infoFetch = "idle"
    /\ threatTrends = <<>>
    /\ interval = 0
    /\ timers = {}
    /\ filterType = "all"
    /\ chart = Blank
    /\ now = 0
    /\ rngState = Unseeded
    /\ tickLog = <<>>
    /\ trendChart = <<>>
    /\ completed = [kind \in Kinds |-> 0]

NextForm ==
    \/ \E name \in EditedFields : \E chars \in TypedNumbers :
          HandleChange(name, chars)
    \/ \E type \in {"malware", "benign"} : LoadExample(type)
    \/ SubmitMalware(MaxAppRequests)
    \/ \E r \in requests : \E data \in ResponseBodies(r.kind) : SettleOk(r, data)
    \/ \E r \in requests : \E failure \in Failures : SettleFailed(r, failure)

SpecForm == InitForm /\ [][NextForm]_vars

----------------------------------------------------------------------------
(* The trend stream *)

\* The clock readings carried by the points of the trend, oldest first.
TrendTimes == [i \in 1..Len(threatTrends) |-> threatTrends[i].time]

\* C1: after n ticks of the running timer the trend holds at most 20 points,
\* and they are exactly the last min(n, 20) ticks, oldest first.
C1_TrendHoldsLastTicks ==
    /\ Len(threatTrends) <= TrendCapacity
    /\ activeTab = "analytics" =>
          TrendTimes = LastN(tickLog, Min(Len(tickLog), TrendCapacity))

\* C1 witness: after 25 ticks the trend holds ticks 6 to 25.
C1_After25Ticks ==
    /\ activeTab = "analytics"
    /\ Len(tickLog) = 25
    /\ Len(threatTrends) = 20
    /\ TrendTimes = SubSeq(tickLog, 6, 25)

\* The trend stream is stopped: no dashboard is mounted.
Stopped == activeTab # "analytics"

\* C8: while the stream is stopped no interval callback fires and no point
\* is appended; stopping again changes nothing; the timer starts only when
\* the dashboard mounts, stops only when it unmounts, and there is never
\* more than one.
C8_NoTickAfterStop ==
    [][/\ Stopped =>
            /\ tickLog' = tickLog \/ (tickLog' = <<>> /\ ~Stopped')
            /\ threatTrends' = threatTrends
            /\ ClearInterval(timers, interval) = timers
       /\ (timers = {} /\ timers' # {}) => (Stopped /\ ~Stopped')
       /\ (timers # {} /\ timers' = {}) => (~Stopped /\ Stopped')
       /\ Cardinality(timers') <= 1]_vars

\* C8 witness: the stream was stopped after it produced three points, and
\* the clock has moved on since its last tick.
C8_StoppedAfterTicks ==
    /\ Stopped
    /\ timers = {}
    /\ Len(tickLog) >= 3
    /\ threatTrends = <<>>

----------------------------------------------------------------------------
(* The confidence histogram *)

RECURSIVE SumCounts(_, _)
\* The sum of the counts of the first n bins of a histogram.
SumCounts(histogram, n) ==
    IF n = 0 THEN 0 ELSE histogram[n].count + SumCounts(histogram, n - 1)

\* The results of both partitions.
StoredResults ==
    {predictionHistory.spam[j] : j \in 1..Len(predictionHistory.spam)}
    \cup {predictionHistory.malware[j] : j \in 1..Len(predictionHistory.malware)}

\* A confidence in [0.0, 1.0]
InUnitRange(confidence) == confidence >= 0 /\ confidence <= 100

\* C2: for every snapshot of the history (all results or one kind) whose
\* confidences lie in [0.0, 1.0], the ten bin counts sum to the number of
\* results in the snapshot.
C2_BinCountsSumToLength ==
    \A filter \in FilterTypes :
        LET snapshot == Snapshot(predictionHistory, filter)
        IN  (\A j \in 1..Len(snapshot) : InUnitRange(snapshot[j].confidence))
            => SumCounts(Histogram(snapshot), NumBins) = Len(snapshot)

\* C3: a result with confidence in [0.0, 1.0] is counted in bin i exactly
\* when edges[i] <= confidence < edges[i+1], except that confidence 1.0 is
\* counted in the last bin.
C3_BinMembership ==
    \A p \in StoredResults : \A i \in 1..NumBins :
        InUnitRange(p.confidence) =>
            ((Histogram(<<p>>)[i].count = 1)
             <=> \/ BinEdges[i] <= p.confidence /\ p.confidence < BinEdges[i + 1]
                 \/ p.confidence = 100 /\ i = NumBins)

\* Ten bins with their labels and no result in any.
ZeroBins == [i \in 1..NumBins |-> [bin |-> BinLabel(i), count |-> 0]]

\* C4: while the dashboard shows a snapshot that is empty (no results, or
\* none of the kind the filter selects), the chart is ten all-zero bins.
C4_EmptySnapshotShowsZeroBins ==
    (activeTab = "analytics"
     /\ Len(Snapshot(predictionHistory, filterType)) = 0)
    => chart = ZeroBins

----------------------------------------------------------------------------
(* Failed and out-of-contract predictions *)

\* The error state of the detector of a kind.
ErrorOf(kind) ==
    IF kind = "spam" THEN spamDetector.error ELSE malwareDetector.error

\* C5 as claimed: every failed prediction sets the error message of its
\* detector and leaves the history and the trend as they were.
C5_FailureSurfacedHistoryKept ==
    [][\A r \in requests : \A failure \in Failures :
          SettleFailed(r, failure) =>
              /\ ErrorOf(r.kind)' = Some(ErrorMessage(failure))
              /\ UNCHANGED <<predictionHistory, threatTrends>>]_vars

\* C5 as amended: a failed prediction leaves the history and the trend as
\* they were; it sets the error message of its detector when the detector
\* that submitted it is still mounted, and changes no detector otherwise.
C5_FailureKeepsHistory ==
    [][\A r \in requests : \A failure \in Failures :
          SettleFailed(r, failure) =>
              /\ UNCHANGED <<predictionHistory, threatTrends>>
              /\ r.live => ErrorOf(r.kind)' = Some(ErrorMessage(failure))
              /\ ~r.live => UNCHANGED <<spamDetector, malwareDetector>>]_vars

\* C5 witness: after the trend timer had ticked on an earlier visit of the
\* dashboard, a malware prediction failed and its message is shown; nothing
\* was appended.
C5_FailureSurfaced ==
    /\ malwareDetector.error = Some("Prediction failed")
    /\ ~malwareDetector.loading
    /\ malwareDetector.result = None
    /\ requests = {}
    /\ tickLog # <<>>
    /\ predictionHistory = [spam |-> <<>>, malware |-> <<>>]

\* The keys the probabilities of a kind must have.
ClassKeys(kind) == {ClassNames(kind)[1], ClassNames(kind)[2]}

\* C6: every stored result has a confidence in [0, 1] and probabilities for
\* both classes of its kind (an out-of-contract body is never appended).
C6_StoredResultsInContract ==
    \A p \in StoredResults :
        /\ InUnitRange(p.confidence)
        /\ DOMAIN p.probabilities = ClassKeys(p.type)

----------------------------------------------------------------------------
(* Spam validation *)

\* C7: no spam request in flight carries an email_text shorter than 10
\* characters.
C7_NoShortEmailRequested ==
    \A r \in requests :
        r.kind = "spam" => Len(r.body.email_text) >= MinEmailLength

\* C7 witness: a request for a text of exactly 10 characters is in flight
\* while the textarea holds 9 characters, for which none was issued.
C7_TenRequestedNineHeld ==
    /\ \E r \in requests :
          r.kind = "spam" /\ r.live /\ Len(r.body.email_text) = 10
    /\ Len(spamDetector.emailText) = 9

----------------------------------------------------------------------------
(* History order and append *)

\* The results of s are in the order of their timestamps.
InAppendOrder(s) ==
    \A i, j \in 1..Len(s) : i < j => s[i].timestamp < s[j].timestamp

\* C9 as claimed: every snapshot, of all results or of one kind, lists the
\* results in the order they were appended.
C9_SnapshotInAppendOrder ==
    \A filter \in FilterTypes :
        InAppendOrder(Snapshot(predictionHistory, filter))

\* C9 as amended: a snapshot of one kind lists exactly the results of that
\* kind in append order; the snapshot of all results lists the spam results
\* in append order followed by the malware results in append order.
C9_SnapshotOrderedPerKind ==
    /\ \A kind \in Kinds :
          LET s == Snapshot(predictionHistory, kind)
          IN  /\ Len(s) = Len(predictionHistory[kind])
              /\ \A i \in 1..Len(s) : s[i].type = kind
              /\ InAppendOrder(s)
    /\ LET all == Snapshot(predictionHistory, "all")
       IN  /\ Len(all) = Len(predictionHistory.spam) + Len(predictionHistory.malware)
           /\ \A i, j \in 1..Len(all) : i < j =>
                 /\ all[i].type = all[j].type => all[i].timestamp < all[j].timestamp
                 /\ ~(all[i].type = "malware" /\ all[j].type = "spam")

\* C9 witness: a malware result was appended before a spam result.
C9_MalwareBeforeSpam ==
    /\ Len(predictionHistory.spam) = 1
    /\ Len(predictionHistory.malware) = 1
    /\ predictionHistory.malware[1].timestamp < predictionHistory.spam[1].timestamp

\* The other kind.
OtherKind(kind) == IF kind = "spam" THEN "malware" ELSE "spam"

\* In this step exactly one entry was added at the end of the partition of
\* kind, stamped with kind and the time of the step; the rest is as before.
AppendedTo(kind) ==
    LET before == predictionHistory[kind]
        after == predictionHistory'[kind]
    IN  /\ Len(after) = Len(before) + 1
        /\ SubSeq(after, 1, Len(before)) = before
        /\ after[Len(after)].type = kind
        /\ after[Len(after)].timestamp = now
        /\ predictionHistory'[OtherKind(kind)] = predictionHistory[OtherKind(kind)]

\* C10: every step that changes the history is the append for a request of
\* some kind K that settled in this step: it adds exactly one entry at the
\* end of K's partition, stamped with K and the time of the append, and
\* leaves the other partition and the earlier entries of K's partition as
\* they were; so no step removes an entry.
C10_AppendAddsOneAtEnd ==
    [][predictionHistory' # predictionHistory =>
          \E r \in requests : r \notin requests' /\ AppendedTo(r.kind)]_vars

\* C10 witness: a partition holds two results, appended one after the other.
C10_TwoAppended ==
    /\ Len(predictionHistory.malware) = 2
    /\ predictionHistory.malware[1].timestamp < predictionHistory.malware[2].timestamp
    /\ \A i \in 1..2 : predictionHistory.malware[i].type = "malware"

----------------------------------------------------------------------------
\* C11: the history is changed by nothing but the append that follows a
\* successful prediction.  A step that changes either partition settles a
\* request with a body; a step in which the trend timer ticks, the filter
\* changes (and the histogram is computed again from the history), the tab
\* is switched, a request is submitted or a request fails leaves both
\* partitions as they were.
C11_OnlyAppendChangesHistory ==
    [][predictionHistory' # predictionHistory =>
          /\ completed' # completed
          /\ \E r \in requests : requests' = requests \ {r}
          /\ UNCHANGED <<activeTab, filterType, tickLog, threatTrends,
                         nextRequest>>]_vars

\* C11 witness: on the analytics tab a result is in the history after the
\* timer ticked, the filter was changed and the histogram was drawn from it.
C11_HistoryKeptOnDashboard ==
    /\ activeTab = "analytics"
    /\ Len(predictionHistory.spam) = 1
    /\ filterType = "malware"
    /\ chart # Blank
    /\ threatTrends # <<>>

----------------------------------------------------------------------------
\* C12: a prediction in flight, and its failure, neither stop nor hold back
\* the trend timer.  While the analytics tab is shown the timer is set and
\* its callback can fire at the next clock reading, whatever requests are
\* in flight; and the step in which a request settles leaves the timer, the
\* trend sequence and the ticks fired so far as they were.
C12_TicksIndependentOfRequests ==
    /\ [](activeTab = "analytics" =>
            /\ interval \in timers
            /\ ENABLED Tick(interval, now + 1))
    /\ [][\A r \in requests :
            (\A q \in requests' : q.id # r.id) =>
               UNCHANGED <<timers, interval, threatTrends, tickLog>>]_vars

\* C12 witness: the timer ticked twice while a request was in flight, and
\* the request can still fail.
C12_TickedWhileInFlight ==
    /\ activeTab = "analytics"
    /\ Len(tickLog) = 2
    /\ Len(threatTrends) = 2
    /\ \E r \in requests : \E failure \in Failures :
          ENABLED SettleFailed(r, failure)

----------------------------------------------------------------------------
\* C13: the failure of a prediction is reported as the kind of error it is,
\* a classifier error with its status: the error a mounted detector shows
\* after a request failed is the error of that failure and of no failure
\* of another mode or another status.
C13_ErrorTellsFailure ==
    [][\A r \in requests : \A failure \in Failures :
          (r.live /\ SettleFailed(r, failure)) =>
             \A other \in Failures :
                ErrorOf(r.kind)' = Some(ErrorMessage(other)) => other = failure]_vars

----------------------------------------------------------------------------
\* A trend sequence a reader may be handed: at most TrendCapacity points,
\* each with its time, its spam count and its malware count.
WholeTrend(data) ==
    /\ Len(data) <= TrendCapacity
    /\ \A i \in 1..Len(data) : DOMAIN data[i] = {"time", "spam", "malware"}

\* C14: the append of a trend point is atomic for the readers.  In every
\* state the trend sequence holds at most 20 points and every point has
\* its time, spam count and malware count, and so does what the trend
\* chart has drawn from it: the sequence of 21 points that exists between
\* push() and shift() and a point built in part are never read.
C14_ReadersSeeWholeTrend ==
    /\ WholeTrend(threatTrends)
    /\ WholeTrend(trendChart)
    /\ activeTab = "analytics" => trendChart = threatTrends

\* C14 witness: the chart shows a full sequence from which the oldest points
\* have been shifted out.
C14_FullTrendDrawn ==
    /\ Len(trendChart) = TrendCapacity
    /\ trendChart[1].time > tickLog[1]
    /\ trendChart[TrendCapacity].time = tickLog[Len(tickLog)]

----------------------------------------------------------------------------
\* C15: for every value of Math.random() in [0, 1) the spam count of a trend
\* point is an integer from 5 to 24 and its malware count an integer from 3
\* to 17.
C15_CountsInRange ==
    \A i \in 1..Len(threatTrends) :
       /\ threatTrends[i].spam \in 5..24
       /\ threatTrends[i].malware \in 3..17

\* C15 witness: a point with the largest spam count and the smallest
\* malware count.
C15_ExtremePoint ==
    /\ Len(threatTrends) = 1
    /\ threatTrends[1].spam = 24
    /\ threatTrends[1].malware = 3

----------------------------------------------------------------------------
\* The names of the fields of the malware form.
MalwareFields == DOMAIN FormDataInit

\* The decimal texts of the numbers the form can hold: the initial values,
\* the example values and the small integers.
NumberTexts ==
    {FormDataInit[field] : field \in MalwareFields}
    \cup {ExampleValues(type)[field] :
             type \in {"malware", "benign"},
             field \in {"static_prio", "utime", "free_area_cache", "nvcsw"}}
    \cup {ToString(n) : n \in -99..99}

\* C16 as claimed: every malware request carries exactly 32 numeric fields.
C16_RequestCarries32Fields ==
    \A r \in requests :
       r.kind = "malware" =>
          /\ Cardinality(DOMAIN r.body) = 32
          /\ \A field \in DOMAIN r.body : r.body[field] \in NumberTexts

\* C16, amended: after any sequence of edits and example loads every
\* malware request carries exactly the 33 named fields of the form's initial
\* value, no more and no fewer, each holding a number.
C16_RequestCarriesFormFields ==
    /\ Cardinality(MalwareFields) = 33
    /\ \A r \in requests :
          r.kind = "malware" =>
             /\ DOMAIN r.body = MalwareFields
             /\ \A field \in MalwareFields : r.body[field] \in NumberTexts

\* C16 witness: a request submitted after an example was loaded and two
\* fields were edited, one with a text that parseInt cuts short and one with
\* a text it turns into 0.
C16_EditedFormRequested ==
    \E r \in requests :
       /\ r.kind = "malware"
       /\ r.body.utime = "410000"
       /\ r.body.static_prio = "1"
       /\ r.body.shared_vm = "-7"
       /\ r.body.nvcsw = "100"

----------------------------------------------------------------------------
\* C17: no append is lost when requests are in flight together and settle
\* in any order, a request whose tab was left included: the partition of
\* each kind is as long as the number of requests of that kind that have
\* resolved with a body.
C17_PartitionCountsCompletions ==
    \A kind \in Kinds : Len(predictionHistory[kind]) = completed[kind]

\* C17 witness: the malware request, sent second, has been appended while
\* the spam request sent before it, whose tab was left, is still in flight.
C17_LaterRequestAppendedFirst ==
    /\ completed.malware = 1
    /\ Len(predictionHistory.malware) = 1
    /\ \E r \in requests : r.kind = "spam" /\ r.id = 1 /\ ~r.live

----------------------------------------------------------------------------
\* C18: the trend timer runs exactly while the analytics tab is the active
\* tab.  On the analytics tab the one timer set is the dashboard's, on the
\* other tabs no timer is set and the trend sequence is empty; every point
\* of the sequence was pushed by a tick since the tab was last entered;
\* and a tab switch leaves the trend sequence empty and the prediction
\* history as it was.
C18_TimerFollowsTab ==
    /\ [](/\ activeTab = "analytics" => timers = {interval}
          /\ activeTab # "analytics" => timers = {} /\ threatTrends = <<>>
          /\ \A i \in 1..Len(threatTrends) :
                \E j \in 1..Len(tickLog) : threatTrends[i].time = tickLog[j])
    /\ [][activeTab' # activeTab =>
             /\ threatTrends' = <<>>
             /\ predictionHistory' = predictionHistory]_vars

\* C18 witness: the analytics tab entered again after an earlier visit in
\* which the timer ticked: the timer is set, the sequence is empty and the
\* history holds the result appended before.
C18_SecondVisit ==
    /\ activeTab = "analytics"
    /\ timers = {interval}
    /\ threatTrends = <<>>
    /\ tickLog = <<>>
    /\ now = MaxAppTime
    /\ Len(predictionHistory.spam) = 1

----------------------------------------------------------------------------
\* The detector of a kind.
Detector(kind) == IF kind = "spam" THEN spamDetector ELSE malwareDetector

\* In this step the detector of kind sent the request with the next id.
Submitted(kind) ==
    \E q \in requests' : q.id = nextRequest /\ q.kind = kind

\* In this step request r settled.
Settled(r) == \A q \in requests' : q.id # r.id

\* A submit starts with loading false, sets loading and clears result and
\* error.
SubmitSetsLoading ==
    \A kind \in Kinds :
       Submitted(kind) =>
          /\ ~Detector(kind).loading
          /\ Detector(kind)'.loading
          /\ Detector(kind)'.result = None
          /\ Detector(kind)'.error = None

\* After request r settled its detector has loading false and exactly one
\* of result and error, and the history grew exactly if it is the result.
SettleShown(r) ==
    /\ ~Detector(r.kind)'.loading
    /\ (Detector(r.kind)'.result = None) # (Detector(r.kind)'.error = None)
    /\ (predictionHistory' # predictionHistory)
          <=> (Detector(r.kind)'.result # None)

\* C19 as claimed: a submit sets loading and clears result and error and
\* cannot start while loading is true; whenever a request settles, loading
\* is false and exactly one of result and error is set, with a history
\* append if and only if it is the result.
C19_SubmitSettleCycle ==
    [][/\ SubmitSetsLoading
       /\ \A r \in requests : Settled(r) => SettleShown(r)]_vars

\* C19, amended: a submit sets loading and clears result and error, and a
\* detector is loading exactly while a request of its own is in flight, at
\* most one.  When a request settles whose detector is still mounted,
\* loading is false and exactly one of result and error is set, the result
\* exactly if the history grew.  When a request settles after its tab was
\* left, no detector changes, and the history grows exactly if the request
\* resolved with a body.
C19_MountedSubmitSettleCycle ==
    /\ [](\A kind \in Kinds :
            /\ Detector(kind).loading
                  <=> (\E r \in requests : r.kind = kind /\ r.live)
            /\ Cardinality({r \in requests : r.kind = kind /\ r.live}) <= 1)
    /\ [][/\ SubmitSetsLoading
          /\ \A r \in requests :
                Settled(r) =>
                   /\ r.live => SettleShown(r)
                   /\ ~r.live =>
                         /\ UNCHANGED <<spamDetector, malwareDetector>>
                         /\ (predictionHistory' # predictionHistory)
                               <=> (completed' # completed)]_vars

\* C19 witness: a malware request settled with a body while its detector was
\* mounted, after a spam request had failed in its own detector: the result
\* is shown, loading is false and the one entry is in the history.
C19_ResultShownAfterFailure ==
    /\ activeTab = "malware"
    /\ malwareDetector.result # None
    /\ malwareDetector.error = None
    /\ ~malwareDetector.loading
    /\ Len(predictionHistory.malware) = 1
    /\ completed = [spam |-> 0, malware |-> 1]
    /\ nextRequest = 3
    /\ requests = {}

====
